---- MODULE Spec2Model ----
(***************************************************************************)
(* Digital Stopwatch & Timer (src/unnamed/part_000).                       *)
(*                                                                         *)
(* Two closures, Stopwatch and Timer, each with its own state variables,   *)
(* driven by click / input handlers and by a setInterval callback that     *)
(* recomputes the time from Date.now().  Time is in milliseconds.          *)
(*                                                                         *)
(* The handlers are modelled as callable in every state: the `disabled`    *)
(* attributes that updateButtons() writes are part of the rendering layer, *)
(* and every handler carries its own guard (`if (isRunning) return` ...),  *)
(* which is what the model translates.  A handler that returns early is a  *)
(* step that changes nothing but lastOp.                                   *)
(*                                                                         *)
(* The host scheduler gives no upper bound on the delay of a callback:     *)
(* the clock may advance by any step while an interval is active, and the  *)
(* callback of an active interval may run at any later moment.  Every      *)
(* clock step is longer than both cadences (10 ms, 100 ms), so a callback  *)
(* is due after every step; a callback run at the very instant of start()  *)
(* recomputes the value start() left.                                      *)
(*                                                                         *)
(* The two closures share no variable; they only read the same clock.      *)
(***************************************************************************)
EXTENDS Integers, Sequences, FiniteSets, TLC

VARIABLES
    now,              \* Date.now()
    lastOp,           \* history: the handler or callback that ran last
    \* ---- Stopwatch closure (lines 98-102)
    swIsRunning,      \* isRunning
    swStartTime,      \* startTime
    swElapsedTime,    \* elapsedTime
    swIntervalId,     \* intervalId (NoHandle models null)
    laps,             \* laps
    swIntervals,      \* host scheduler: handles of the Stopwatch's active intervals
    swRunTime,        \* history: wall-clock time spent with isRunning since the last reset()
    \* ---- Timer closure (lines 268-272) and the DOM it reads
    tmIsRunning,      \* isRunning
    tmRemainingTime,  \* remainingTime
    tmTotalTime,      \* totalTime
    tmIntervalId,     \* intervalId (NoHandle models null)
    tmEndTime,        \* endTime
    hoursInput,       \* parseInt(hoursInput.value) || 0
    minutesInput,     \* parseInt(minutesInput.value) || 0
    secondsInput,     \* parseInt(secondsInput.value) || 0
    overlayHidden,    \* overlay.classList contains 'hidden'
    tmIntervals,      \* host scheduler: handles of the Timer's active intervals
    tmCompletions,    \* history: complete() calls since the last successful start()
    \* ---- the alert of showComplete() (lines 354-361, 53-81)
    timeouts,         \* host scheduler: due times of the pending setTimeout callbacks
    beepsPlayed,      \* history: playBeep() calls since page load
    alerts,           \* history: showComplete() calls since page load
    \* ---- formatTime() (lines 30-46), called on its own
    fmtMs,            \* the argument ms of the last call
    fmtOut            \* the object the last call returned

swVars == <<swIsRunning, swStartTime, swElapsedTime, swIntervalId, laps, swIntervals>>

tmVars == <<tmIsRunning, tmRemainingTime, tmTotalTime, tmIntervalId, tmEndTime,
            hoursInput, minutesInput, secondsInput, overlayHidden, tmIntervals>>

alertVars == <<timeouts, beepsPlayed, alerts>>

fmtVars == <<fmtMs, fmtOut>>

vars == <<now, lastOp, swVars, swRunTime, tmVars, tmCompletions, alertVars, fmtVars>>

----------------------------------------------------------------------------
(* Bounds of the model *)

\* The clock stops advancing at MaxNow when one machine is operated alone, and
\* at PageMaxNow when the handlers of both machines interleave.  The clock
\* moves by the steps of ClockSteps, so its values are multiples of 500 ms.
MaxNow == 2000
PageMaxNow == 1000

\* recordLap() is explored until the list holds MaxLaps laps.
MaxLaps == 2

\* The history counter of complete() calls saturates at MaxCompletions.
MaxCompletions == 2

\* Handles the host scheduler can hand out at the same time.
MaxHandles == 2

\* showComplete() is explored until it has run MaxAlerts times.
MaxAlerts == 2

\* formatTime() is called on the arguments within MaxFmtDelta ms of a value
\* of FmtBases: zero, one second, one minute, a minute and a half, one hour,
\* one hundred hours.
MaxFmtDelta == 10
FmtBases == {0, 1000, 60000, 90000, 3600000, 360000000}
FormatInputs == {b + d : b \in FmtBases, d \in (0 - MaxFmtDelta)..MaxFmtDelta}

\* The clock advances by one of these steps (ms).
ClockSteps == {500, 1000}

\* The delays (ms) the two setInterval calls ask for, lines 178 and 399: the
\* host runs a callback not before the delay has passed, and as much later
\* as it likes.
SwCadence == 10
TmCadence == 100

\* What a user types into an input field, as parseInt reads it; NaN is text
\* that does not parse.
NaN == -1000
RawInputs == {NaN, -1, 1}

----------------------------------------------------------------------------
(* Helpers *)

NoHandle == 0

Handles == 1..MaxHandles

Max(a, b) == IF a >= b THEN a ELSE b

Min(a, b) == IF a <= b THEN a ELSE b

\* setInterval: a handle that is not in use (ids of cleared intervals are
\* never referenced again by the program, so they may be handed out again).
FreshHandle(active) == CHOOSE h \in Handles : h \notin active /\ \A g \in Handles \ active : h <= g

\* clearInterval(id): cancels the interval with that handle; clearInterval(null)
\* cancels nothing.
ClearInterval(active, id) == active \ {id}

----------------------------------------------------------------------------
(* Clock *)

\* Date.now() moves forward by d ms; no handler runs meanwhile.  swRunTime
\* accumulates the step when the Stopwatch is running.
Advance(d) ==
    /\ now + d <= MaxNow
    /\ now' = now + d
    /\ lastOp' = "advance"
    /\ swRunTime' = IF swIsRunning THEN swRunTime + d ELSE swRunTime
    /\ UNCHANGED <<swVars, tmVars, tmCompletions, alertVars, fmtVars>>

----------------------------------------------------------------------------
(* Stopwatch *)

\* Mutant of SwStartDeclines: start() without its isRunning guard.
SwStartNeverDeclines == FALSE

\* start(), line 169: if (isRunning) return;
SwStartDeclines == swIsRunning

\* Mutant of SwStartInstant: start() forgets the elapsed time accumulated
\* before a pause and restarts from zero.
SwStartInstantFromZero(t, elapsed) == t

\* start(), line 172: startTime = Date.now() - elapsedTime
SwStartInstant(t, elapsed) == t - elapsed

\* interval callback, line 176: elapsedTime = Date.now() - startTime
SwElapsedAt(t, start) == t - start

\* pause(), lines 186-194, as a relation on the Stopwatch's variables that
\* pause() may write.
SwPauseBody ==
    IF ~swIsRunning
    THEN UNCHANGED <<swIsRunning, swIntervalId, swIntervals>>
    ELSE /\ swIsRunning' = FALSE
         /\ swIntervals' = ClearInterval(swIntervals, swIntervalId)
         /\ swIntervalId' = NoHandle

\* start(), lines 168-181
SwStart ==
    /\ lastOp' = "swStart"
    /\ IF SwStartDeclines
       THEN UNCHANGED swVars
       ELSE /\ swIntervals # Handles
            /\ swIsRunning' = TRUE
            /\ swStartTime' = SwStartInstant(now, swElapsedTime)
            /\ swIntervalId' = FreshHandle(swIntervals)
            /\ swIntervals' = swIntervals \cup {FreshHandle(swIntervals)}
            /\ UNCHANGED <<swElapsedTime, laps>>
    /\ UNCHANGED <<now, swRunTime, tmVars, tmCompletions, alertVars, fmtVars>>

\* Mutant of SwTick: the callback adds the cadence to elapsedTime instead of
\* reading the clock.
SwTickAddsCadence(h) ==
    /\ h \in swIntervals
    /\ lastOp' = "swTick"
    /\ swElapsedTime' = swElapsedTime + SwCadence
    /\ UNCHANGED <<swIsRunning, swStartTime, swIntervalId, laps, swIntervals>>
    /\ UNCHANGED <<now, swRunTime, tmVars, tmCompletions, alertVars, fmtVars>>

\* the setInterval callback of start(), lines 175-178, run for the active
\* interval h
SwTick(h) ==
    /\ h \in swIntervals
    /\ lastOp' = "swTick"
    /\ swElapsedTime' = SwElapsedAt(now, swStartTime)
    /\ UNCHANGED <<swIsRunning, swStartTime, swIntervalId, laps, swIntervals>>
    /\ UNCHANGED <<now, swRunTime, tmVars, tmCompletions, alertVars, fmtVars>>

\* Mutant of SwPause: pause() brings elapsedTime up to date from the clock,
\* and does so before looking at isRunning.
SwPauseRecomputes ==
    /\ lastOp' = "swPause"
    /\ SwPauseBody
    /\ swElapsedTime' = SwElapsedAt(now, swStartTime)
    /\ UNCHANGED <<swStartTime, laps>>
    /\ UNCHANGED <<now, swRunTime, tmVars, tmCompletions, alertVars, fmtVars>>

\* pause(), lines 186-194
SwPause ==
    /\ lastOp' = "swPause"
    /\ SwPauseBody
    /\ UNCHANGED <<swStartTime, swElapsedTime, laps>>
    /\ UNCHANGED <<now, swRunTime, tmVars, tmCompletions, alertVars, fmtVars>>

\* Mutant of SwReset: reset() without its call of pause().
SwResetWithoutPause ==
    /\ lastOp' = "swReset"
    /\ swElapsedTime' = 0
    /\ laps' = <<>>
    /\ swRunTime' = 0
    /\ UNCHANGED <<swIsRunning, swIntervalId, swIntervals, swStartTime>>
    /\ UNCHANGED <<now, tmVars, tmCompletions, alertVars, fmtVars>>

\* reset(), lines 199-207
SwReset ==
    /\ lastOp' = "swReset"
    /\ SwPauseBody
    /\ swElapsedTime' = 0
    /\ laps' = <<>>
    /\ swRunTime' = 0
    /\ UNCHANGED swStartTime
    /\ UNCHANGED <<now, tmVars, tmCompletions, alertVars, fmtVars>>

\* Mutant of NewLap: the split is taken from zero instead of from the
\* previous lap.
NewLapFromZero(ls, lapTime) ==
    [number |-> Len(ls) + 1, total |-> lapTime, diff |-> lapTime]

\* recordLap(), lines 215-224: the lap pushed when elapsedTime is lapTime
NewLap(ls, lapTime) ==
    LET prevLapTime == IF Len(ls) > 0 THEN ls[Len(ls)].total ELSE 0
    IN  [number |-> Len(ls) + 1, total |-> lapTime, diff |-> lapTime - prevLapTime]

\* Mutant of SwRecordLap: recordLap() without its test of isRunning.
SwRecordLapUnguarded ==
    /\ lastOp' = "swRecordLap"
    /\ Len(laps) < MaxLaps
    /\ laps' = Append(laps, NewLap(laps, swElapsedTime))
    /\ UNCHANGED <<swIsRunning, swStartTime, swElapsedTime, swIntervalId, swIntervals>>
    /\ UNCHANGED <<now, swRunTime, tmVars, tmCompletions, alertVars, fmtVars>>

\* recordLap(), lines 212-227
SwRecordLap ==
    /\ lastOp' = "swRecordLap"
    /\ IF ~swIsRunning
       THEN UNCHANGED laps
       ELSE /\ Len(laps) < MaxLaps
            /\ laps' = Append(laps, NewLap(laps, swElapsedTime))
    /\ UNCHANGED <<swIsRunning, swStartTime, swElapsedTime, swIntervalId, swIntervals>>
    /\ UNCHANGED <<now, swRunTime, tmVars, tmCompletions, alertVars, fmtVars>>

\* A handler or callback of the Stopwatch runs.
SwOps ==
    \/ SwStart
    \/ SwPause
    \/ SwReset
    \/ SwRecordLap
    \/ \E h \in Handles : SwTick(h)


----------------------------------------------------------------------------
(* formatTime *)

\* String(n) of a non-negative integer, as the sequence of its decimal digits
RECURSIVE DecimalString(_)
DecimalString(n) ==
    IF n < 10 THEN <<n>> ELSE Append(DecimalString(n \div 10), n % 10)

\* str.padStart(len, pad): pad is put in front until the string has len
\* characters; a string that is long enough is returned as it is
RECURSIVE PadStart(_, _, _)
PadStart(str, len, pad) ==
    IF Len(str) >= len THEN str ELSE PadStart(<<pad>> \o str, len, pad)

\* Mutant of FmtMinutes: the minutes of the whole duration, hours included.
FmtMinutesOfTotal(totalSeconds) == totalSeconds \div 60

\* formatTime(), line 35: Math.floor((totalSeconds % 3600) / 60)
FmtMinutes(totalSeconds) == (totalSeconds % 3600) \div 60

\* formatTime(ms, includeMs), lines 30-46 (src/utility.js, lines 9-25); the
\* code never reads includeMs. The digit 0 stands for the character '0'.
formatTime(ms) ==
    LET totalMs      == Max(0, ms)
        totalSeconds == totalMs \div 1000
        hours        == totalSeconds \div 3600
        minutes      == FmtMinutes(totalSeconds)
        seconds      == totalSeconds % 60
        milliseconds == (totalMs % 1000) \div 10
    IN  [hours        |-> PadStart(DecimalString(hours), 2, 0),
         minutes      |-> PadStart(DecimalString(minutes), 2, 0),
         seconds      |-> PadStart(DecimalString(seconds), 2, 0),
         milliseconds |-> PadStart(DecimalString(milliseconds), 2, 0)]

\* a call formatTime(ms) of one of the display routines, lines 108, 150-151, 290
FormatCall(ms) ==
    /\ lastOp' = "formatTime"
    /\ fmtMs' = ms
    /\ fmtOut' = formatTime(ms)
    /\ UNCHANGED <<now, swVars, swRunTime, tmVars, tmCompletions, alertVars>>

----------------------------------------------------------------------------
(* Timer *)

\* parseInt(input.value) || 0, lines 279-281 and 346
OrZero(v) == IF v = NaN THEN 0 ELSE v

\* validateInput(), lines 346-347: the value written back to the field
Clamp(v, lo, hi) == Max(lo, Min(hi, OrZero(v)))

\* getInputTime(), lines 278-284, of the three field values
InputTime(h, m, s) ==
    LET hours   == Max(0, OrZero(h))
        minutes == Max(0, Min(59, OrZero(m)))
        seconds == Max(0, Min(59, OrZero(s)))
    IN  (hours * 3600 + minutes * 60 + seconds) * 1000

\* getInputTime() of the fields as they are
GetInputTime == InputTime(hoursInput, minutesInput, secondsInput)

\* start(), line 374: if (isRunning) return;
TmStartDeclines == tmIsRunning

\* Mutant of TmStartLoads: start() reads the inputs every time.
TmStartAlwaysLoads == TRUE

\* start(), line 377: the inputs are read only when remainingTime === 0
TmStartLoads == tmRemainingTime = 0

\* Mutant of TmNothingToCount: start() declines a negative duration only.
TmNothingToCountIfNegative(remaining) == remaining < 0

\* start(), lines 383-385: if (remainingTime <= 0) return;
TmNothingToCount(remaining) == remaining <= 0

\* start(), line 388: endTime = Date.now() + remainingTime
TmEndInstant(t, remaining) == t + remaining

\* interval callback, line 392: remainingTime = Math.max(0, endTime - Date.now())
TmRemainingAt(t, end) == Max(0, end - t)

\* Mutant of TmPauseBody: pause() without clearInterval(intervalId).
TmPauseKeepsInterval ==
    IF ~tmIsRunning
    THEN UNCHANGED <<tmIsRunning, tmIntervalId, tmIntervals>>
    ELSE /\ tmIsRunning' = FALSE
         /\ tmIntervalId' = NoHandle
         /\ UNCHANGED tmIntervals

\* pause(), lines 407-415, as a relation on the Timer's variables that
\* pause() may write.
TmPauseBody ==
    IF ~tmIsRunning
    THEN UNCHANGED <<tmIsRunning, tmIntervalId, tmIntervals>>
    ELSE /\ tmIsRunning' = FALSE
         /\ tmIntervals' = ClearInterval(tmIntervals, tmIntervalId)
         /\ tmIntervalId' = NoHandle

\* Mutant of BeepDelays: showComplete() without its last setTimeout.
BeepDelaysWithoutLast == {300}

\* showComplete(), lines 359-360: the delays of the two setTimeout calls
BeepDelays == {300, 600}

\* showComplete(), lines 354-361: the overlay is shown, playBeep() is called
\* once at once and two more calls are handed to setTimeout. The guard caps
\* the history counters.
ShowComplete ==
    /\ alerts < MaxAlerts
    /\ overlayHidden' = FALSE
    /\ beepsPlayed' = beepsPlayed + 1
    /\ timeouts' = timeouts \cup {now + d : d \in BeepDelays}
    /\ alerts' = alerts + 1

\* Mutant of TmComplete: complete() without its call of pause().
TmCompleteWithoutPause ==
    /\ tmRemainingTime' = 0
    /\ ShowComplete
    /\ tmCompletions' = Min(tmCompletions + 1, MaxCompletions)
    /\ UNCHANGED <<tmIsRunning, tmIntervalId, tmIntervals>>

\* complete(), lines 433-440, with showComplete(), lines 354-361
TmComplete ==
    /\ TmPauseBody
    /\ tmRemainingTime' = 0
    /\ ShowComplete
    /\ tmCompletions' = Min(tmCompletions + 1, MaxCompletions)

\* start(), lines 373-402
TmStart ==
    /\ lastOp' = "tmStart"
    /\ IF TmStartDeclines
       THEN UNCHANGED <<tmVars, tmCompletions>>
       ELSE LET remaining == IF TmStartLoads THEN GetInputTime ELSE tmRemainingTime
                total     == IF TmStartLoads THEN GetInputTime ELSE tmTotalTime
            IN  /\ tmRemainingTime' = remaining
                /\ tmTotalTime' = total
                /\ IF TmNothingToCount(remaining)
                   THEN UNCHANGED <<tmIsRunning, tmEndTime, tmIntervalId, tmIntervals,
                                    tmCompletions>>
                   ELSE /\ tmIntervals # Handles
                        /\ tmIsRunning' = TRUE
                        /\ tmEndTime' = TmEndInstant(now, remaining)
                        /\ tmIntervalId' = FreshHandle(tmIntervals)
                        /\ tmIntervals' = tmIntervals \cup {FreshHandle(tmIntervals)}
                        /\ tmCompletions' = 0
                /\ UNCHANGED <<hoursInput, minutesInput, secondsInput, overlayHidden>>
    /\ UNCHANGED <<now, swVars, swRunTime, alertVars, fmtVars>>

\* Mutant of TmTick: the callback without its call of complete().
TmTickNeverCompletes(h) ==
    /\ h \in tmIntervals
    /\ lastOp' = "tmTick"
    /\ tmRemainingTime' = TmRemainingAt(now, tmEndTime)
    /\ UNCHANGED <<tmIsRunning, tmIntervalId, tmIntervals, overlayHidden,
                   tmCompletions, alertVars>>
    /\ UNCHANGED <<tmTotalTime, tmEndTime, hoursInput, minutesInput, secondsInput>>
    /\ UNCHANGED <<now, swVars, swRunTime, fmtVars>>

\* the setInterval callback of start(), lines 391-399, run for the active
\* interval h
TmTick(h) ==
    /\ h \in tmIntervals
    /\ lastOp' = "tmTick"
    /\ IF TmRemainingAt(now, tmEndTime) <= 0
       THEN TmComplete
       ELSE /\ tmRemainingTime' = TmRemainingAt(now, tmEndTime)
            /\ UNCHANGED <<tmIsRunning, tmIntervalId, tmIntervals, overlayHidden,
                           tmCompletions, alertVars>>
    /\ UNCHANGED <<tmTotalTime, tmEndTime, hoursInput, minutesInput, secondsInput>>
    /\ UNCHANGED <<now, swVars, swRunTime, fmtVars>>

\* pause(), lines 407-415
TmPause ==
    /\ lastOp' = "tmPause"
    /\ TmPauseBody
    /\ UNCHANGED <<tmRemainingTime, tmTotalTime, tmEndTime, hoursInput, minutesInput,
                   secondsInput, overlayHidden, tmCompletions>>
    /\ UNCHANGED <<now, swVars, swRunTime, alertVars, fmtVars>>

\* Mutant of TmResetBody: reset() restores the duration of the last run
\* without reading the inputs.
TmResetRestoresTotal ==
    /\ TmPauseBody
    /\ tmRemainingTime' = tmTotalTime
    /\ overlayHidden' = TRUE
    /\ UNCHANGED <<tmTotalTime, tmEndTime, hoursInput, minutesInput, secondsInput,
                   tmCompletions>>

\* reset(), lines 420-428: pause(), reload from the inputs, hideComplete()
TmResetBody ==
    /\ TmPauseBody
    /\ tmRemainingTime' = GetInputTime
    /\ tmTotalTime' = GetInputTime
    /\ overlayHidden' = TRUE
    /\ UNCHANGED <<tmEndTime, hoursInput, minutesInput, secondsInput, tmCompletions>>

\* click on the reset button, line 449
TmReset ==
    /\ lastOp' = "tmReset"
    /\ TmResetBody
    /\ UNCHANGED <<now, swVars, swRunTime, alertVars, fmtVars>>

\* click on the dismiss button, lines 450-453: hideComplete(); reset()
TmDismiss ==
    /\ lastOp' = "tmDismiss"
    /\ TmResetBody
    /\ UNCHANGED <<now, swVars, swRunTime, alertVars, fmtVars>>

\* Mutant of UpdateDisplayFromInputs: totalTime is not written.
UpdateDisplayKeepsTotal(h, m, s) ==
    IF ~tmIsRunning
    THEN /\ tmRemainingTime' = InputTime(h, m, s)
         /\ UNCHANGED tmTotalTime
    ELSE UNCHANGED <<tmRemainingTime, tmTotalTime>>

\* Mutant of UpdateDisplayFromInputs: without the test of isRunning.
UpdateDisplayWhileRunning(h, m, s) ==
    /\ tmRemainingTime' = InputTime(h, m, s)
    /\ tmTotalTime' = InputTime(h, m, s)

\* Mutant of UpdateDisplayFromInputs: a countdown under way is left alone,
\* paused or not.
UpdateDisplayUnlessStarted(h, m, s) ==
    IF ~tmIsRunning /\ tmRemainingTime = tmTotalTime
    THEN /\ tmRemainingTime' = InputTime(h, m, s)
         /\ tmTotalTime' = InputTime(h, m, s)
    ELSE UNCHANGED <<tmRemainingTime, tmTotalTime>>

\* updateDisplayFromInputs(), lines 314-321, once the fields hold h, m, s
UpdateDisplayFromInputs(h, m, s) ==
    IF ~tmIsRunning
    THEN /\ tmRemainingTime' = InputTime(h, m, s)
         /\ tmTotalTime' = InputTime(h, m, s)
    ELSE UNCHANGED <<tmRemainingTime, tmTotalTime>>

\* 'input' event on the hours field after the user typed raw, lines 456-459
TmInputHours(raw) ==
    /\ lastOp' = "tmInput"
    /\ hoursInput' = Clamp(raw, 0, 99)
    /\ UNCHANGED <<minutesInput, secondsInput>>
    /\ UpdateDisplayFromInputs(Clamp(raw, 0, 99), minutesInput, secondsInput)
    /\ UNCHANGED <<tmIsRunning, tmIntervalId, tmEndTime, overlayHidden, tmIntervals,
                   tmCompletions>>
    /\ UNCHANGED <<now, swVars, swRunTime, alertVars, fmtVars>>

\* 'input' event on the minutes field after the user typed raw, lines 461-464
TmInputMinutes(raw) ==
    /\ lastOp' = "tmInput"
    /\ minutesInput' = Clamp(raw, 0, 59)
    /\ UNCHANGED <<hoursInput, secondsInput>>
    /\ UpdateDisplayFromInputs(hoursInput, Clamp(raw, 0, 59), secondsInput)
    /\ UNCHANGED <<tmIsRunning, tmIntervalId, tmEndTime, overlayHidden, tmIntervals,
                   tmCompletions>>
    /\ UNCHANGED <<now, swVars, swRunTime, alertVars, fmtVars>>

\* 'input' event on the seconds field after the user typed raw, lines 466-469
TmInputSeconds(raw) ==
    /\ lastOp' = "tmInput"
    /\ secondsInput' = Clamp(raw, 0, 59)
    /\ UNCHANGED <<hoursInput, minutesInput>>
    /\ UpdateDisplayFromInputs(hoursInput, minutesInput, Clamp(raw, 0, 59))
    /\ UNCHANGED <<tmIsRunning, tmIntervalId, tmEndTime, overlayHidden, tmIntervals,
                   tmCompletions>>
    /\ UNCHANGED <<now, swVars, swRunTime, alertVars, fmtVars>>

\* a setTimeout callback of showComplete(), lines 359-360, whose delay has
\* passed: playBeep(800, 0.5). The host runs the callbacks that are due in
\* the order of their due times, and none before its due time.
TmBeepTimeout(due) ==
    /\ due \in timeouts
    /\ due <= now
    /\ \A other \in timeouts : due <= other
    /\ lastOp' = "tmBeep"
    /\ timeouts' = timeouts \ {due}
    /\ beepsPlayed' = beepsPlayed + 1
    /\ UNCHANGED <<now, swVars, swRunTime, tmVars, tmCompletions, alerts, fmtVars>>

\* A handler or interval callback of the Timer runs.
TmOps ==
    \/ TmStart
    \/ TmPause
    \/ TmReset
    \/ TmDismiss
    \/ \E h \in Handles : TmTick(h)
    \/ \E raw \in RawInputs : TmInputHours(raw)
    \/ \E raw \in RawInputs : TmInputMinutes(raw)
    \/ \E raw \in RawInputs : TmInputSeconds(raw)

----------------------------------------------------------------------------
(* The page *)

\* The values the input fields hold when the page loads.
InitFields == {Clamp(raw, 0, 59) : raw \in RawInputs}

\* DOMContentLoaded, lines 497-503: Stopwatch.init() and Timer.init() on the
\* initial values of the closures (lines 98-102 and 268-272); Timer.init()
\* ends with updateDisplayFromInputs(), line 479.
Init ==
    /\ now = 0
    /\ lastOp = "init"
    /\ swIsRunning = FALSE
    /\ swStartTime = 0
    /\ swElapsedTime = 0
    /\ swIntervalId = NoHandle
    /\ laps = <<>>
    /\ swIntervals = {}
    /\ swRunTime = 0
    /\ tmIsRunning = FALSE
    /\ tmIntervalId = NoHandle
    /\ tmEndTime = 0
    /\ hoursInput \in InitFields
    /\ minutesInput \in InitFields
    /\ secondsInput \in InitFields
    /\ tmRemainingTime = GetInputTime
    /\ tmTotalTime = GetInputTime
    /\ overlayHidden = TRUE
    /\ tmIntervals = {}
    /\ tmCompletions = 0
    /\ timeouts = {}
    /\ beepsPlayed = 0
    /\ alerts = 0
    /\ fmtMs = 0
    /\ fmtOut = formatTime(0)

\* The clock step of the page specification, which stops at PageMaxNow.
PageAdvance(d) ==
    /\ now + d <= PageMaxNow
    /\ Advance(d)

\* Both machines on the page: the handlers of the two closures interleave.
\* The beep callbacks of showComplete() are left to the Timer's own
\* specification: they write no variable of either closure, and none of them
\* is due before PageMaxNow.
Next ==
    \/ SwOps
    \/ TmOps
    \/ \E d \in ClockSteps : PageAdvance(d)

Spec == Init /\ [][Next]_vars

\* The Stopwatch alone: no Timer handler runs.
SwNext ==
    \/ SwOps
    \/ \E d \in ClockSteps : Advance(d)

SwSpec == Init /\ [][SwNext]_vars

\* The Timer alone: no Stopwatch handler runs.
TmNext ==
    \/ TmOps
    \/ \E due \in timeouts : TmBeepTimeout(due)
    \/ \E d \in ClockSteps : Advance(d)

TmSpec == Init /\ [][TmNext]_vars

\* The Timer alone, with the scheduling the host gives: the callback of an
\* active interval keeps being run, and the clock keeps advancing (up to the
\* bound of the model).
TmFairSpec ==
    /\ TmSpec
    /\ WF_vars(\E h \in Handles : TmTick(h))
    /\ WF_vars(\E d \in ClockSteps : Advance(d))

\* formatTime() alone: it is called on one argument after the other.
FmtNext == \E ms \in FormatInputs : FormatCall(ms)

FmtSpec == Init /\ [][FmtNext]_vars


----------------------------------------------------------------------------
(* Stopwatch: claims *)

\* C1: as long as reset() is not the step taken, elapsedTime never decreases
\* from one state to the next (the clock never goes backwards); a start()
\* after a pause() resumes from the paused value.
C1_ElapsedNeverDecreases ==
    [][lastOp' # "swReset" => swElapsedTime' >= swElapsedTime]_vars

\* start() has just resumed a paused Stopwatch: elapsedTime is kept and
\* startTime lies elapsedTime before now.
C1_Witness ==
    /\ lastOp = "swStart"
    /\ swIsRunning
    /\ swElapsedTime > 0
    /\ swStartTime = now - swElapsedTime
    /\ swRunTime >= swElapsedTime

\* C2 (as claimed): whenever the Stopwatch is not running, elapsedTime equals
\* the wall-clock time it has spent running since the last reset(), the sum
\* of (pause instant - start instant) over its start()..pause() intervals.
C2_ElapsedEqualsRunTime ==
    ~swIsRunning => swElapsedTime = swRunTime

\* C3: a state that reset() has just produced has elapsedTime 0, no laps,
\* isRunning false, intervalId null and no active interval.
C3_ResetClears ==
    lastOp = "swReset" =>
        /\ swElapsedTime = 0
        /\ laps = <<>>
        /\ ~swIsRunning
        /\ swIntervalId = NoHandle
        /\ swIntervals = {}

\* reset() has acted on a Stopwatch that had been started at a later instant
\* than page load (startTime still records it).
C3_Witness ==
    /\ lastOp = "swReset"
    /\ swStartTime > 0
    /\ now > swStartTime

\* The lap invariant of a lap list.
LapsWellFormed(ls) ==
    \A i \in 1..Len(ls) :
        /\ ls[i].number = i
        /\ ls[i].diff = ls[i].total - (IF i > 1 THEN ls[i - 1].total ELSE 0)
        /\ i > 1 => ls[i].total >= ls[i - 1].total

\* C4: in every reachable state the laps are numbered 1, 2, ..., each diff is
\* the lap's total minus the previous lap's total (or minus 0), and the totals
\* never decrease; laps at 1500 ms and 4200 ms give {1500, 1500} and
\* {4200, 2700}.
C4_LapInvariant ==
    /\ LapsWellFormed(laps)
    /\ NewLap(<<>>, 1500) = [number |-> 1, total |-> 1500, diff |-> 1500]
    /\ NewLap(<<NewLap(<<>>, 1500)>>, 4200) = [number |-> 2, total |-> 4200, diff |-> 2700]

\* Two laps recorded at different elapsed times.
C4_Witness ==
    /\ Len(laps) = 2
    /\ laps[1].total > 0
    /\ laps[2].total > laps[1].total


----------------------------------------------------------------------------
(* Timer: claims *)

\* A step that interrupts a running countdown: pause(), reset(), dismiss or
\* an input event.
TmInterrupted == lastOp \in {"tmPause", "tmReset", "tmDismiss", "tmInput"}

\* The Complete condition: the overlay is shown, nothing remains and the
\* Timer does not run.
TmIsComplete == ~overlayHidden /\ tmRemainingTime = 0 /\ ~tmIsRunning

\* C5: a countdown started with a positive duration that ends within the
\* horizon of the clock, and that no pause(), reset() or input event
\* interrupts, eventually stops with remainingTime 0 and isRunning false
\* after exactly one complete(); complete() never runs twice for one start().
C5_CompletesExactlyOnce ==
    /\ [](tmCompletions <= 1)
    /\ (tmIsRunning /\ tmEndTime <= MaxNow)
          ~> (TmInterrupted \/ (TmIsComplete /\ tmCompletions = 1))

\* The callback has just completed a countdown.
C5_Witness ==
    /\ lastOp = "tmTick"
    /\ TmIsComplete
    /\ tmCompletions = 1
    /\ tmTotalTime > 0
    /\ now >= tmEndTime

\* C6 (as claimed): start() called while the input fields give a duration of
\* 0 never takes the Timer from not running to running.
C6_ZeroDurationNeverRuns ==
    [][(lastOp' = "tmStart" /\ GetInputTime = 0 /\ ~tmIsRunning) => ~tmIsRunning']_vars

\* C6 (amended): start() called while the input fields give a duration of 0
\* and remainingTime is 0 leaves the Timer not running, with remainingTime 0.
C6_ZeroDurationIdleNeverRuns ==
    [][(lastOp' = "tmStart" /\ GetInputTime = 0 /\ tmRemainingTime = 0)
          => (~tmIsRunning' /\ tmRemainingTime' = 0 /\ tmIntervals' = {})]_vars

\* start() has just declined: the inputs give 0, nothing remains, and the
\* Timer had run before.
C6_Witness ==
    /\ lastOp = "tmStart"
    /\ GetInputTime = 0
    /\ tmRemainingTime = 0
    /\ ~tmIsRunning
    /\ ~overlayHidden

\* C7: on both machines pause() in a state that is not running, and so a
\* second pause() right after a first, changes nothing.
C7_PauseIdempotent ==
    [][/\ (lastOp' = "swPause" /\ (~swIsRunning \/ lastOp = "swPause"))
            => UNCHANGED <<now, swVars, swRunTime, tmVars, tmCompletions>>
       /\ (lastOp' = "tmPause" /\ (~tmIsRunning \/ lastOp = "tmPause"))
            => UNCHANGED <<now, swVars, swRunTime, tmVars, tmCompletions>>]_vars

\* Both machines are paused in the middle of a run, the Timer by the last
\* step.
C7_Witness ==
    /\ lastOp = "tmPause"
    /\ ~tmIsRunning
    /\ tmRemainingTime > 0
    /\ tmRemainingTime < tmTotalTime
    /\ ~swIsRunning
    /\ swElapsedTime > 0

\* The interval handle of a machine is non-null exactly when it runs, and the
\* scheduler holds exactly that interval for it.
OneIntervalPerMachine ==
    /\ Cardinality(swIntervals) <= 1
    /\ swIsRunning <=> swIntervalId # NoHandle
    /\ swIntervals = IF swIsRunning THEN {swIntervalId} ELSE {}
    /\ Cardinality(tmIntervals) <= 1
    /\ tmIsRunning <=> tmIntervalId # NoHandle
    /\ tmIntervals = IF tmIsRunning THEN {tmIntervalId} ELSE {}

\* C8: each machine has at most one active interval, its intervalId is
\* non-null exactly when isRunning, and start() on a running machine
\* schedules nothing and changes nothing.
C8_SingleInterval ==
    /\ []OneIntervalPerMachine
    /\ [][/\ (lastOp' = "swStart" /\ swIsRunning)
               => UNCHANGED <<now, swVars, swRunTime, tmVars, tmCompletions>>
          /\ (lastOp' = "tmStart" /\ tmIsRunning)
               => UNCHANGED <<now, swVars, swRunTime, tmVars, tmCompletions>>]_vars

\* Both machines run, and the last step was a start() of the Stopwatch that
\* declined: startTime is not the one a start() at this instant would set.
C8_Witness ==
    /\ lastOp = "swStart"
    /\ swIsRunning
    /\ swStartTime + swElapsedTime < now
    /\ tmIsRunning
    /\ tmEndTime - tmRemainingTime < now

\* C9: a callback runs only for a machine that is running (no callback of a
\* cancelled interval runs after pause(), reset() or completion), and while a
\* machine is not running its time changes only by reset(), start() or an
\* input event, never by a callback.
C9_NoStaleTick ==
    [][/\ lastOp' = "swTick" => swIsRunning
       /\ lastOp' = "tmTick" => tmIsRunning
       /\ (~swIsRunning /\ swElapsedTime' # swElapsedTime) => lastOp' = "swReset"
       /\ (~tmIsRunning /\ tmRemainingTime' # tmRemainingTime)
            => lastOp' \in {"tmReset", "tmDismiss", "tmStart", "tmInput"}]_vars

\* The Stopwatch has been paused after a callback ran, and the Timer has
\* completed: neither has an interval left.
C9_Witness ==
    /\ ~swIsRunning
    /\ swElapsedTime > 0
    /\ swIntervals = {}
    /\ TmIsComplete
    /\ tmCompletions = 1
    /\ tmIntervals = {}

\* C10 (as claimed): once the Timer is Complete, start() and pause() leave it
\* Complete.
C10_CompleteIsTerminal ==
    [][(TmIsComplete /\ lastOp' \in {"tmStart", "tmPause"}) => TmIsComplete']_vars



\* C11: right after reset() (the reset button, or the dismiss button, which
\* calls reset()), whatever the state it was called in, the Timer is not
\* running, holds no interval handle, remainingTime and totalTime both equal
\* the duration the input fields hold at that moment, and the completion
\* overlay is hidden.
C11_ResetReloads ==
    lastOp \in {"tmReset", "tmDismiss"} =>
        /\ ~tmIsRunning
        /\ tmIntervalId = NoHandle
        /\ tmIntervals = {}
        /\ tmRemainingTime = GetInputTime
        /\ tmTotalTime = GetInputTime
        /\ overlayHidden

\* reset() after a run of a positive duration during which the fields were
\* set to zero: the duration reloaded is the fields', not the run's.
C11_Witness ==
    /\ lastOp = "tmReset"
    /\ tmEndTime > 0
    /\ tmTotalTime = 0
    /\ GetInputTime = 0

\* C12: in every reachable state 0 <= remainingTime <= totalTime.
C12_RemainingWithinTotal ==
    /\ 0 <= tmRemainingTime
    /\ tmRemainingTime <= tmTotalTime

\* A tick has taken remainingTime strictly between zero and totalTime.
C12_Witness ==
    /\ lastOp = "tmTick"
    /\ tmIsRunning
    /\ 0 < tmRemainingTime
    /\ tmRemainingTime < tmTotalTime

\* C13: while the Timer runs, a tick, a start() and an input event leave
\* totalTime as it is, and the input event leaves remainingTime as it is
\* too; a step changes totalTime only if it is a start() of a Timer that is
\* not running with remainingTime = 0, a reset(), or an input event of a
\* Timer that is not running.
C13_TotalFixedWhileRunning ==
    [][ /\ (tmIsRunning /\ lastOp' \in {"tmTick", "tmStart", "tmInput"})
            => tmTotalTime' = tmTotalTime
        /\ (tmIsRunning /\ lastOp' = "tmInput")
            => tmRemainingTime' = tmRemainingTime
        /\ tmTotalTime' # tmTotalTime
            => \/ lastOp' = "tmStart" /\ ~tmIsRunning /\ tmRemainingTime = 0
               \/ lastOp' \in {"tmReset", "tmDismiss"}
               \/ lastOp' = "tmInput" /\ ~tmIsRunning ]_vars

\* An input event came while the Timer ran and changed the fields to another
\* duration than the one being counted down.
C13_Witness ==
    /\ lastOp = "tmInput"
    /\ tmIsRunning
    /\ GetInputTime # tmTotalTime


\* The step is a Complete transition: a tick stops the running Timer.
TmCompletes == lastOp' = "tmTick" /\ tmIsRunning /\ ~tmIsRunning'

\* C14: every Complete transition raises the alert once: playBeep() is called
\* at once and two more calls are scheduled 300 ms and 600 ms after the
\* instant of completion; a scheduled call is played not before it is due,
\* the earlier one first; no other step plays or schedules a beep. So the
\* beeps played and the beeps still scheduled always add up to three per
\* completion.
C14_AlertOncePerCompletion ==
    /\ [](beepsPlayed + Cardinality(timeouts) = 3 * alerts)
    /\ [][ IF TmCompletes
           THEN /\ alerts' = alerts + 1
                /\ beepsPlayed' = beepsPlayed + 1
                /\ timeouts \cap {now + 300, now + 600} = {}
                /\ timeouts' = timeouts \cup {now + 300, now + 600}
           ELSE /\ alerts' = alerts
                /\ \/ UNCHANGED <<beepsPlayed, timeouts>>
                   \/ \E due \in timeouts :
                        /\ due <= now
                        /\ \A other \in timeouts : due <= other
                        /\ timeouts' = timeouts \ {due}
                        /\ beepsPlayed' = beepsPlayed + 1 ]_vars

\* The three beeps of one completion have all been played.
C14_Witness ==
    /\ lastOp = "tmBeep"
    /\ alerts = 1
    /\ beepsPlayed = 3
    /\ timeouts = {}

\* C17: pause() leaves remainingTime and totalTime as they are; a start() of
\* a Timer that is not running with remainingTime > 0 runs it with
\* endTime = now + remainingTime and leaves remainingTime and totalTime as
\* they are, whatever the input fields hold; a start() changes remainingTime
\* or totalTime only from remainingTime = 0, to the duration in the fields.
C17_ResumeKeepsRemaining ==
    [][ /\ lastOp' = "tmPause"
            => UNCHANGED <<tmRemainingTime, tmTotalTime>>
        /\ (lastOp' = "tmStart" /\ ~tmIsRunning /\ tmRemainingTime > 0)
            => /\ tmIsRunning'
               /\ tmEndTime' = now + tmRemainingTime
               /\ UNCHANGED <<tmRemainingTime, tmTotalTime>>
        /\ (lastOp' = "tmStart" /\ ~UNCHANGED <<tmRemainingTime, tmTotalTime>>)
            => /\ tmRemainingTime = 0
               /\ tmRemainingTime' = GetInputTime
               /\ tmTotalTime' = GetInputTime ]_vars

\* A Timer paused part-way has been started again: it runs toward
\* now + remainingTime with less than totalTime left.
C17_Witness ==
    /\ lastOp = "tmStart"
    /\ tmIsRunning
    /\ now > 0
    /\ tmEndTime = now + tmRemainingTime
    /\ 0 < tmRemainingTime
    /\ tmRemainingTime < tmTotalTime

\* C19: a running Timer has remainingTime > 0; a start() that finds nothing
\* to count down does not run the Timer, and a tick that computes
\* remainingTime = 0 leaves the Timer stopped with its interval cleared.
C19_RunningHasTimeLeft ==
    /\ [](tmIsRunning => tmRemainingTime > 0)
    /\ [][ /\ (lastOp' = "tmStart" /\ ~tmIsRunning /\ tmRemainingTime' <= 0)
                => ~tmIsRunning'
           /\ (lastOp' = "tmTick" /\ tmRemainingTime' = 0)
                => /\ ~tmIsRunning'
                   /\ tmIntervalId' = NoHandle
                   /\ tmIntervals' = {} ]_vars

\* A tick at or after endTime has computed zero and stopped the Timer.
C19_Witness ==
    /\ lastOp = "tmTick"
    /\ tmEndTime > 0
    /\ now >= tmEndTime
    /\ tmRemainingTime = 0
    /\ ~tmIsRunning
    /\ tmIntervalId = NoHandle
    /\ tmIntervals = {}

\* C20: an input event on a Timer that is not running sets remainingTime and
\* totalTime to the duration the fields hold after the event; an input event
\* on a running Timer changes neither.
C20_InputOverwritesUnlessRunning ==
    [][ lastOp' = "tmInput" =>
            IF tmIsRunning
            THEN UNCHANGED <<tmRemainingTime, tmTotalTime>>
            ELSE /\ tmRemainingTime' = InputTime(hoursInput', minutesInput', secondsInput')
                 /\ tmTotalTime' = InputTime(hoursInput', minutesInput', secondsInput') ]_vars

\* The fields of a Timer stopped before the end of its run were edited: the
\* time left of that run is gone, the new duration is in its place.
C20_Witness ==
    /\ lastOp = "tmInput"
    /\ ~tmIsRunning
    /\ overlayHidden
    /\ tmEndTime > now
    /\ tmRemainingTime = GetInputTime
    /\ tmTotalTime = GetInputTime
    /\ tmRemainingTime > tmEndTime - now

----------------------------------------------------------------------------
(* formatTime: claims *)

\* The number a string of decimal digits denotes.
RECURSIVE DecimalValue(_)
DecimalValue(str) ==
    IF str = <<>>
    THEN 0
    ELSE DecimalValue(SubSeq(str, 1, Len(str) - 1)) * 10 + str[Len(str)]

\* The four components of a result of formatTime(ms) are strings of decimal
\* digits, with minutes and seconds in 0..59, hundredths in 0..99 and equal
\* to floor((ms mod 1000) / 10), and hours * 3600 + minutes * 60 + seconds
\* equal to floor(ms / 1000), a negative ms counting as 0; 90000 ms comes out
\* as 00:01:30.
FormatTimeValues(ms, out) ==
    LET t  == Max(0, ms)
        hh == DecimalValue(out.hours)
        mm == DecimalValue(out.minutes)
        ss == DecimalValue(out.seconds)
        cc == DecimalValue(out.milliseconds)
    IN  /\ \A f \in DOMAIN out : \A i \in DOMAIN out[f] : out[f][i] \in 0..9
        /\ mm \in 0..59
        /\ ss \in 0..59
        /\ cc \in 0..99
        /\ cc = (t % 1000) \div 10
        /\ hh * 3600 + mm * 60 + ss = t \div 1000
        /\ ms = 90000 =>
              /\ out.hours = <<0, 0>>
              /\ out.minutes = <<0, 1>>
              /\ out.seconds = <<3, 0>>

\* C15 as stated: the result of formatTime(ms) has the values of
\* FormatTimeValues and every component is two characters wide.
C15_AllTwoDigits ==
    /\ FormatTimeValues(fmtMs, fmtOut)
    /\ \A f \in DOMAIN fmtOut : Len(fmtOut[f]) = 2

\* C15, amended: the result of formatTime(ms) has the values of
\* FormatTimeValues; minutes, seconds and hundredths are two characters
\* wide; hours are at least two characters wide, and exactly two when they
\* are below 100.
C15_TwoDigitsBelowHundredHours ==
    /\ FormatTimeValues(fmtMs, fmtOut)
    /\ Len(fmtOut.minutes) = 2
    /\ Len(fmtOut.seconds) = 2
    /\ Len(fmtOut.milliseconds) = 2
    /\ Len(fmtOut.hours) >= 2
    /\ DecimalValue(fmtOut.hours) <= 99 => Len(fmtOut.hours) = 2

\* formatTime() was called on a duration of a hundred hours or more, and the
\* hours came out three characters wide.
C15_Witness ==
    /\ lastOp = "formatTime"
    /\ fmtMs >= 360000000
    /\ fmtOut.hours = <<1, 0, 0>>
    /\ Len(fmtOut.minutes) = 2


----------------------------------------------------------------------------
(* Both machines: drift *)

\* What the running Stopwatch would show if it read the clock now.
SwTrueElapsed == now - swStartTime

\* What the running Timer would show if it read the clock now.
TmTrueRemaining == Max(0, tmEndTime - now)

\* Every tick of the Stopwatch leaves elapsedTime = now - startTime and every
\* tick of the Timer leaves remainingTime = max(0, endTime - now), whatever
\* the ticks before it did.
TicksReadTheClock ==
    /\ lastOp' = "swTick" => swElapsedTime' = now' - swStartTime'
    /\ lastOp' = "tmTick" => tmRemainingTime' = Max(0, tmEndTime' - now')

\* C16 as stated: every tick recomputes the value from the clock, and while
\* a machine runs its stored value is at most one cadence away from the
\* value the clock gives.
C16_LagWithinCadence ==
    /\ [][TicksReadTheClock]_vars
    /\ [](swIsRunning => SwTrueElapsed - swElapsedTime <= SwCadence)
    /\ [](tmIsRunning => tmRemainingTime - TmTrueRemaining <= TmCadence)

\* C16, amended: every tick recomputes the value from the clock, and while
\* a machine runs its stored value is never ahead of the value the clock
\* gives, and equal to it right after a tick: it is behind by the time since
\* its last tick or start(), which no step of the code bounds.
C16_NeverAheadOfClock ==
    /\ [][TicksReadTheClock]_vars
    /\ [](swIsRunning => /\ swElapsedTime <= SwTrueElapsed
                         /\ lastOp = "swTick"
                                => swElapsedTime = SwTrueElapsed)
    /\ [](tmIsRunning => /\ tmRemainingTime >= TmTrueRemaining
                         /\ lastOp = "tmTick"
                                => tmRemainingTime = TmTrueRemaining)

\* A late tick has brought the Stopwatch up to date by a whole second, while
\* the running Timer, whose callback is late too, is more than a cadence
\* behind the clock.
C16_Witness ==
    /\ lastOp = "swTick"
    /\ swIsRunning
    /\ swElapsedTime = SwTrueElapsed
    /\ swElapsedTime >= 1000
    /\ tmIsRunning
    /\ tmRemainingTime - TmTrueRemaining > TmCadence


----------------------------------------------------------------------------
(* Stopwatch: laps *)

\* C18: recordLap() on a Stopwatch that is not running changes nothing;
\* recordLap() on a running one appends one lap and changes nothing else; the
\* lap list changes in no other step, except that reset() empties it.
C18_LapsFrame ==
    [][ /\ (lastOp' = "swRecordLap" /\ ~swIsRunning)
            => UNCHANGED <<now, swVars, swRunTime>>
        /\ (lastOp' = "swRecordLap" /\ swIsRunning)
            => /\ Len(laps') = Len(laps) + 1
               /\ SubSeq(laps', 1, Len(laps)) = laps
               /\ UNCHANGED <<swIsRunning, swStartTime, swElapsedTime, swIntervalId>>
        /\ laps' # laps
            => \/ lastOp' = "swRecordLap" /\ swIsRunning
               \/ lastOp' = "swReset" /\ laps' = <<>> ]_vars

\* recordLap() was called on a Stopwatch paused later than its one lap, and
\* the list still holds that one lap.
C18_Witness ==
    /\ lastOp = "swRecordLap"
    /\ ~swIsRunning
    /\ Len(laps) = 1
    /\ swElapsedTime > laps[1].total

============================================================================
